---- MODULE Spec2Model ----
(***************************************************************************)
(* KPI development API: the attachment lifecycle of services/kpiService    *)
(* over repositories/kpiRepository (a MongoDB collection of KPI documents  *)
(* and a GridFS bucket of files).                                          *)
(*                                                                         *)
(* Every repository call is one atomic step of the calling request.  A     *)
(* request is a process: it starts an operation, takes the operation's     *)
(* steps in the order of the service code, ends in "done" with a result,   *)
(* and returns.  A store call may fail for a reason of its own (network,   *)
(* timeout); a failed call leaves the store as it was.                     *)
(*                                                                         *)
(* Not modelled: the timestamps (created_at, updated_at), the file bytes   *)
(* and the GridFS metadata; they decide none of the properties below.      *)
(***************************************************************************)
EXTENDS Integers, Sequences, FiniteSets, TLC

\* The ids of the KPI documents, the concurrent requests and the file names
\* of the model.
KpiIds == {1, 2}
Procs == {1, 2}
Filenames == {"a.pdf", "b.pdf"}
\* The actual_percent values of the requests.
Percents == {0, 50}
\* The update requests the handler lets through: goal, description and
\* due_date are required.
HandlerRequests ==
    {[goal |-> "goal", description |-> "description", dueDate |-> 1,
      actualPercent |-> percent] : percent \in Percents}
\* The update requests a caller of the service may make: each of goal,
\* description and due_date empty (the zero value) or new.
ServiceRequests ==
    [goal : {"", "goal2"}, description : {"", "description2"}, dueDate : {0, 2},
     actualPercent : Percents]

\* The number of GridFS file ids the model mints (ids are never reused).
MaxFiles == 2
\* The number of operations started in one behaviour.
MaxOps == 3
\* The number of operations started in one behaviour of the fair
\* specification.
MaxFairOps == 2

\* Two transfers out of one record to two destinations need three records.
TransferIds == {1, 2, 3}

\* The aggregation is checked on three records: the first takes every
\* actual_percent the validation admits, the others the two ends.
StatsIds == {1, 2, 3}
MaxPercent == 100
EndPercents == {0, MaxPercent}

VARIABLES
    kpis,     \* the kpi_developments collection: id -> document
    blobs,    \* the ids of the files in the GridFS bucket
    nextFile, \* the next file id UploadFromStream mints
    pc,       \* where each request is in its operation
    op,       \* the operation each request runs, with its arguments
    loc,      \* the local variables of the running operation
    res,      \* the result the operation returned
    trace,    \* the store calls the running operation has issued, in order
    stale,    \* per transaction: the documents written by others since its snapshot
    nops,     \* operations started so far
    compFailed \* some compensation step (cleanup, rollback) has failed

vars == <<kpis, blobs, nextFile, pc, op, loc, res, trace, stale, nops, compFailed>>

Range(s) == {s[i] : i \in 1..Len(s)}

\* models.KPIDevelopment (without the timestamps)
NoDoc == [exists |-> FALSE, isDeleted |-> FALSE, attachments |-> <<>>,
          actualPercent |-> 0, updatedBy |-> 0,
          goal |-> "", description |-> "", dueDate |-> 0]
NewDoc == [NoDoc EXCEPT !.exists = TRUE, !.goal = "goal",
                        !.description = "description", !.dueDate = 1]

\* models.Attachment
Attachment(fileID, filename) == [fileId |-> fileID, filename |-> filename]

\* The username the JWT middleware resolves for a request.
Actor(p) == p

NoOp == [kind |-> "none", kpi |-> 0, to |-> 0, fileId |-> 0, filename |-> "",
         percent |-> 0, cancelled |-> FALSE,
         goal |-> "", description |-> "", dueDate |-> 0]
NoView == [id \in KpiIds |-> NoDoc]
NoLoc == [fileID |-> 0, filename |-> "", comp |-> "none", existing |-> NoDoc,
          view |-> NoView, wset |-> {}, read |-> {}, stats |-> <<>>]
NoRes == [status |-> "none", errs |-> {}]
Ok == [status |-> "ok", errs |-> {}]
Err(causes) == [status |-> "error", errs |-> causes]

(***************************************************************************)
(* The repository: what each call does to the collection or the bucket.    *)
(***************************************************************************)

\* GetByID: FindOne with the filter {_id: id}.
GetByIDFound(store, id) == store[id].exists

\* The filter {_id: id, is_deleted: {$ne: true}} of SoftDelete, AddAttachment
\* and RemoveAttachment: MatchedCount is 1 iff this holds.
MatchesActive(store, id) == store[id].exists /\ ~store[id].isDeleted

\* An append that replaces the list by the new entry.
AddAttachmentOverwrites(store, id, attachment, updatedBy) ==
    IF MatchesActive(store, id)
    THEN [store EXCEPT ![id].attachments = <<attachment>>,
                       ![id].updatedBy = updatedBy]
    ELSE store

\* AddAttachment: $push the attachment, $set metadata.updated_by.
AddAttachment(store, id, attachment, updatedBy) ==
    IF MatchesActive(store, id)
    THEN [store EXCEPT ![id].attachments = Append(@, attachment),
                       ![id].updatedBy = updatedBy]
    ELSE store

\* A removal that matches and pulls nothing.
RemoveAttachmentKeepsEntry(store, id, fileID, updatedBy) ==
    IF MatchesActive(store, id)
    THEN [store EXCEPT ![id].updatedBy = updatedBy]
    ELSE store

\* RemoveAttachment: $pull every entry with the file id, $set metadata.updated_by.
RemoveAttachment(store, id, fileID, updatedBy) ==
    IF MatchesActive(store, id)
    THEN [store EXCEPT ![id].attachments = SelectSeq(@, LAMBDA a : a.fileId # fileID),
                       ![id].updatedBy = updatedBy]
    ELSE store

\* SoftDelete: $set is_deleted and metadata.updated_by.
SoftDelete(store, id, updatedBy) ==
    IF MatchesActive(store, id)
    THEN [store EXCEPT ![id].isDeleted = TRUE, ![id].updatedBy = updatedBy]
    ELSE store

\* Create: InsertOne of the document under a new ObjectID.
Create(store, id, kpi) == [store EXCEPT ![id] = [kpi EXCEPT !.exists = TRUE]]

\* Update: UpdateOne with the filter {_id: id} and {$set: kpi}, the whole
\* document as the service holds it; MatchedCount is 1 iff the id exists.
Update(store, id, kpi) == IF store[id].exists THEN [store EXCEPT ![id] = kpi] ELSE store

\* An upload that reports an id and stores nothing.
UploadFileStoresNothing(bucket, fileID) == bucket

\* UploadFile: bucket.UploadFromStream stores the file under a new id.
UploadFile(bucket, fileID) == bucket \cup {fileID}

\* DeleteFile: bucket.Delete reports ErrFileNotFound for an id it does not hold.
DeleteFileFound(bucket, fileID) == fileID \in bucket
\* A deletion that reports success and keeps the file.
DeleteFileKeepsFile(bucket, fileID) == bucket

DeleteFile(bucket, fileID) == bucket \ {fileID}

(***************************************************************************)
(* Multi-document transactions (mongo.Session).  A transaction reads the   *)
(* snapshot taken at its first read and buffers its writes in its view;    *)
(* a write to a document that another transaction has written, or that     *)
(* was written since the snapshot, fails with a write conflict.  A write    *)
(* outside a transaction waits while a transaction holds the document.     *)
(***************************************************************************)
TxnPcs == {"t_getTo", "t_remove", "t_add", "t_commit"}

Quiescent == \A p \in Procs : pc[p] \in {"idle", "done"}

InTxn(q) == pc[q] \in TxnPcs

LockedBy(q, id) == InTxn(q) /\ id \in loc[q].wset

Locked(id) == \E q \in Procs : LockedBy(q, id)

\* A store that detects no write conflict.
WriteConflictUndetected(p, id) == FALSE

WriteConflict(p, id) == id \in stale[p] \/ \E q \in Procs \ {p} : LockedBy(q, id)

\* What a committed write of p to the documents ids does to the open snapshots.
MarkStale(p, ids) ==
    [q \in Procs |-> IF q # p /\ InTxn(q) THEN stale[q] \cup ids ELSE stale[q]]

\* A commit that makes only the first written document visible.
CommitApplyFirstWrite(store, view, wset) ==
    [id \in DOMAIN store |-> IF id \in wset /\ \A j \in wset : id <= j
                       THEN view[id] ELSE store[id]]

\* session.CommitTransaction: the buffered writes become visible together.
CommitApply(store, view, wset) ==
    [id \in DOMAIN store |-> IF id \in wset THEN view[id] ELSE store[id]]

\* An abort that leaves the transaction's writes in the collection.
AbortApplyKeepsWrites(store, view, wset) ==
    [id \in DOMAIN store |-> IF id \in wset THEN view[id] ELSE store[id]]

\* session.AbortTransaction: the buffered writes are dropped.
AbortApply(store, view, wset) == store

(***************************************************************************)
(* Helpers of the service code.                                            *)
(***************************************************************************)

\* A scan that takes the first entry, whatever its file id.
ScanIndexFirstEntry(attachments, fileID) == IF Len(attachments) > 0 THEN 1 ELSE 0

\* The scan `for _, attachment := range kpi.Attachments`: the first entry
\* with the file id, or 0.
ScanIndex(attachments, fileID) ==
    IF \E i \in 1..Len(attachments) : attachments[i].fileId = fileID
    THEN CHOOSE i \in 1..Len(attachments) :
            /\ attachments[i].fileId = fileID
            /\ \A j \in 1..(i - 1) : attachments[j].fileId # fileID
    ELSE 0

Finish(p, result) ==
    /\ pc' = [pc EXCEPT ![p] = "done"]
    /\ res' = [res EXCEPT ![p] = result]

Goto(p, label) ==
    /\ pc' = [pc EXCEPT ![p] = label]
    /\ UNCHANGED res

Called(p, calls) == trace' = [trace EXCEPT ![p] = @ \o calls]

Begin(p, o) ==
    /\ pc[p] = "idle"
    /\ nops < MaxOps
    /\ nops' = nops + 1
    /\ op' = [op EXCEPT ![p] = o]

(***************************************************************************)
(* The state after two CreateKPI calls: two active records, no attachment. *)
(***************************************************************************)
Init ==
    /\ kpis = [id \in KpiIds |-> NewDoc]
    /\ blobs = {}
    /\ nextFile = 1
    /\ pc = [p \in Procs |-> "idle"]
    /\ op = [p \in Procs |-> NoOp]
    /\ loc = [p \in Procs |-> NoLoc]
    /\ res = [p \in Procs |-> NoRes]
    /\ trace = [p \in Procs |-> <<>>]
    /\ stale = [p \in Procs |-> {}]
    /\ nops = 0
    /\ compFailed = FALSE

(***************************************************************************)
(* SoftDeleteKPI: one repository call.                                     *)
(***************************************************************************)
SoftDeleteKPI(p, id) ==
    /\ Begin(p, [NoOp EXCEPT !.kind = "softdelete", !.kpi = id])
    /\ ~Locked(id)
    /\ Called(p, <<"SoftDelete">>)
    /\ \E ok \in BOOLEAN :
        IF ok /\ MatchesActive(kpis, id)
        THEN /\ kpis' = SoftDelete(kpis, id, Actor(p))
             /\ stale' = MarkStale(p, {id})
             /\ Finish(p, Ok)
        ELSE /\ Finish(p, Err({"softdelete"}))
             /\ UNCHANGED <<kpis, stale>>
    /\ UNCHANGED <<blobs, nextFile, loc, compFailed>>

(***************************************************************************)
(* CreateKPI and UpdateKPI.                                                *)
(***************************************************************************)

\* The attachments a create request's JSON body may carry.
RequestAttachments == {<<>>, <<Attachment(1, "a.pdf")>>}

\* primitive.NewObjectID: an id no document has.
FreshIds == {id \in KpiIds : ~kpis[id].exists /\ \A j \in KpiIds : j < id => kpis[j].exists}

\* CreateKPI: IsDeleted is cleared, nil Attachments become the empty list,
\* the handler has set created_by and updated_by; then repo.Create.
CreateKPI(p, attachments, percent) ==
    /\ Begin(p, [NoOp EXCEPT !.kind = "create", !.percent = percent])
    /\ Called(p, <<"Create">>)
    /\ \E id \in FreshIds, ok \in BOOLEAN :
        IF ok
        THEN /\ kpis' = Create(kpis, id,
                    [NewDoc EXCEPT !.isDeleted = FALSE, !.attachments = attachments,
                                   !.actualPercent = percent, !.updatedBy = Actor(p)])
             /\ Finish(p, Ok)
        ELSE /\ Finish(p, Err({"create"}))
             /\ UNCHANGED kpis
    /\ UNCHANGED <<blobs, nextFile, loc, stale, compFailed>>

\* An update that leaves the stored actual_percent when the request's is zero.
UpdateFieldsKeepsPercent(existing, kpi, updatedBy) ==
    [existing EXCEPT
        !.goal = IF kpi.goal # "" THEN kpi.goal ELSE @,
        !.description = IF kpi.description # "" THEN kpi.description ELSE @,
        !.dueDate = IF kpi.dueDate # 0 THEN kpi.dueDate ELSE @,
        !.actualPercent = IF kpi.actualPercent # 0 THEN kpi.actualPercent ELSE @,
        !.updatedBy = updatedBy]

\* "Update fields if provided": goal, description and due_date are taken
\* from the request when they are not the zero value, actual_percent and
\* metadata.updated_by always.
UpdateFields(existing, kpi, updatedBy) ==
    [existing EXCEPT
        !.goal = IF kpi.goal # "" THEN kpi.goal ELSE @,
        !.description = IF kpi.description # "" THEN kpi.description ELSE @,
        !.dueDate = IF kpi.dueDate # 0 THEN kpi.dueDate ELSE @,
        !.actualPercent = kpi.actualPercent,
        !.updatedBy = updatedBy]

\* UpdateKPI, first half: GetByID, then the request's fields are set on the
\* document read.
UpdateGet(p, id, kpi) ==
    /\ Begin(p, [NoOp EXCEPT !.kind = "update", !.kpi = id,
                             !.percent = kpi.actualPercent, !.goal = kpi.goal,
                             !.description = kpi.description,
                             !.dueDate = kpi.dueDate])
    /\ Called(p, <<"GetByID">>)
    /\ \E ok \in BOOLEAN :
        IF ok /\ GetByIDFound(kpis, id)
        THEN /\ loc' = [loc EXCEPT ![p].existing = UpdateFields(kpis[id], kpi, Actor(p))]
             /\ Goto(p, "upd_write")
        ELSE /\ Finish(p, Err({"get"}))
             /\ UNCHANGED loc
    /\ UNCHANGED <<kpis, blobs, nextFile, stale, compFailed>>

\* UpdateKPI, second half: repo.Update writes the document back.
UpdateWrite(p) ==
    /\ pc[p] = "upd_write"
    /\ ~Locked(op[p].kpi)
    /\ Called(p, <<"Update">>)
    /\ \E ok \in BOOLEAN :
        IF ok /\ kpis[op[p].kpi].exists
        THEN /\ kpis' = Update(kpis, op[p].kpi, loc[p].existing)
             /\ stale' = MarkStale(p, {op[p].kpi})
             /\ Finish(p, Ok)
        ELSE /\ Finish(p, Err({"update"}))
             /\ UNCHANGED <<kpis, stale>>
    /\ UNCHANGED <<blobs, nextFile, op, loc, nops, compFailed>>

(***************************************************************************)
(* Reads: GetKPIByID and GetAllKPIs.                                       *)
(***************************************************************************)

\* GetAll: Find with the empty filter, every stored document is returned.
GetAll(store) == {id \in KpiIds : store[id].exists}

\* GetKPIByID: the handler answers with the document repo.GetByID found, or
\* with not found.
GetKPIByID(p, id) ==
    /\ Begin(p, [NoOp EXCEPT !.kind = "get", !.kpi = id])
    /\ Called(p, <<"GetByID">>)
    /\ \E ok \in BOOLEAN :
        IF ok /\ GetByIDFound(kpis, id)
        THEN /\ loc' = [loc EXCEPT ![p].read = {id}, ![p].existing = kpis[id]]
             /\ Finish(p, Ok)
        ELSE /\ Finish(p, Err({"get"}))
             /\ UNCHANGED loc
    /\ UNCHANGED <<kpis, blobs, nextFile, stale, compFailed>>

\* GetAllKPIs: the handler answers with the documents repo.GetAll found.
GetAllKPIs(p) ==
    /\ Begin(p, [NoOp EXCEPT !.kind = "getall"])
    /\ Called(p, <<"GetAll">>)
    /\ \E ok \in BOOLEAN :
        IF ok
        THEN /\ loc' = [loc EXCEPT ![p].read = GetAll(kpis)]
             /\ Finish(p, Ok)
        ELSE /\ Finish(p, Err({"getall"}))
             /\ UNCHANGED loc
    /\ UNCHANGED <<kpis, blobs, nextFile, stale, compFailed>>

(***************************************************************************)
(* GetKPIPerformanceStats: the aggregation pipeline.                       *)
(***************************************************************************)

\* A match stage that lets every stored document through.
MatchAll(store) == {id \in DOMAIN store : store[id].exists}

\* $match: the documents whose is_deleted is not true.
Match(store) == {id \in DOMAIN store : store[id].exists /\ store[id].isDeleted # TRUE}

\* A classification whose On Track branch tests > 50.
StatusAbove50(percent) ==
    IF percent >= 100 THEN "Completed"
    ELSE IF percent > 50 THEN "On Track"
    ELSE IF percent >= 25 THEN "At Risk"
    ELSE IF percent >= 1 THEN "Behind"
    ELSE "Not Started"

\* $switch on actual_percent: the first branch whose case holds, else the
\* default.
Status(percent) ==
    IF percent >= 100 THEN "Completed"
    ELSE IF percent >= 50 THEN "On Track"
    ELSE IF percent >= 25 THEN "At Risk"
    ELSE IF percent >= 1 THEN "Behind"
    ELSE IF percent = 0 THEN "Not Started"
    ELSE "Not Started"

\* attachments_count: $size of the attachments array.
AttachmentsCount(doc) == Len(doc.attachments)

RECURSIVE SumOver(_, _)
\* $sum over the documents ids of a group, values the summed field of each.
SumOver(values, ids) ==
    IF ids = {} THEN 0
    ELSE LET id == CHOOSE i \in ids : TRUE
         IN  values[id] + SumOver(values, ids \ {id})

\* $group by status: one bucket per status that some matched document has,
\* with count, avg_completion (as the sum and the number it is divided by)
\* and total_attachments. avg_days_until_due depends on $$NOW and is left
\* out.
Group(store) ==
    LET matched == Match(store)
        members(s) == {id \in matched : Status(store[id].actualPercent) = s}
        percents == [id \in matched |-> store[id].actualPercent]
        counts == [id \in matched |-> AttachmentsCount(store[id])]
    IN  {[status |-> s,
          count |-> Cardinality(members(s)),
          avgCompletion |-> [sum |-> SumOver(percents, members(s)),
                             of |-> Cardinality(members(s))],
          totalAttachments |-> SumOver(counts, members(s))] :
            s \in {Status(store[id].actualPercent) : id \in matched}}

\* A sort stage that leaves the buckets in any order.
SortByCountUnordered(buckets) ==
    {seq \in [1..Cardinality(buckets) -> buckets] :
        \A i, j \in DOMAIN seq : i # j => seq[i] # seq[j]}

\* $sort by count descending: the orders of the buckets in which no bucket
\* precedes one of greater count; equal counts come in either order.
SortByCount(buckets) ==
    {seq \in [1..Cardinality(buckets) -> buckets] :
        /\ \A i, j \in DOMAIN seq : i # j => seq[i] # seq[j]
        /\ \A i, j \in DOMAIN seq : i < j => seq[i].count >= seq[j].count}

\* GetKPIPerformanceStats: Aggregate and cursor.All; the handler answers
\* with the buckets.
GetKPIPerformanceStats(p) ==
    /\ Begin(p, [NoOp EXCEPT !.kind = "stats"])
    /\ Called(p, <<"GetKPIPerformanceStats">>)
    /\ \/ \E result \in SortByCount(Group(kpis)) :
            /\ loc' = [loc EXCEPT ![p].stats = result]
            /\ Finish(p, Ok)
       \/ /\ Finish(p, Err({"stats"}))
          /\ UNCHANGED loc
    /\ UNCHANGED <<kpis, blobs, nextFile, stale, compFailed>>

(***************************************************************************)
(* UploadAttachment.                                                       *)
(***************************************************************************)

\* First: s.repo.GetByID.  An upload starts only while a file id of
\* 1..MaxFiles is left for it.
UploadGet(p, id, filename) ==
    /\ Begin(p, [NoOp EXCEPT !.kind = "upload", !.kpi = id, !.filename = filename])
    /\ nextFile + Cardinality({q \in Procs : pc[q] = "u_put"}) <= MaxFiles
    /\ Called(p, <<"GetByID">>)
    /\ \E ok \in BOOLEAN :
        IF ok /\ GetByIDFound(kpis, id)
        THEN Goto(p, "u_put")
        ELSE Finish(p, Err({"get"}))
    /\ UNCHANGED <<kpis, blobs, nextFile, loc, stale, compFailed>>

\* An upload whose failed put is followed by the cleanup.
UploadPutCompensates(p) ==
    /\ pc[p] = "u_put"
    /\ nextFile <= MaxFiles
    /\ Called(p, <<"UploadFile">>)
    /\ \E ok \in BOOLEAN :
        IF ok
        THEN /\ blobs' = UploadFile(blobs, nextFile)
             /\ nextFile' = nextFile + 1
             /\ loc' = [loc EXCEPT ![p].fileID = nextFile]
             /\ Goto(p, "u_add")
        ELSE /\ Goto(p, "u_cleanup")
             /\ UNCHANGED <<blobs, nextFile, loc>>
    /\ UNCHANGED <<kpis, op, stale, nops, compFailed>>

\* Second: s.repo.UploadFile.
UploadPut(p) ==
    /\ pc[p] = "u_put"
    /\ nextFile <= MaxFiles
    /\ Called(p, <<"UploadFile">>)
    /\ \E ok \in BOOLEAN :
        IF ok
        THEN /\ blobs' = UploadFile(blobs, nextFile)
             /\ nextFile' = nextFile + 1
             /\ loc' = [loc EXCEPT ![p].fileID = nextFile]
             /\ Goto(p, "u_add")
        ELSE /\ Finish(p, Err({"put"}))
             /\ UNCHANGED <<blobs, nextFile, loc>>
    /\ UNCHANGED <<kpis, op, stale, nops, compFailed>>

\* An append that returns its error without the cleanup when the caller's
\* context is cancelled.
UploadAddReturnsOnCancel(p) ==
    /\ pc[p] = "u_add"
    /\ ~Locked(op[p].kpi)
    /\ Called(p, <<"AddAttachment">>)
    /\ \E ok \in BOOLEAN :
        IF ok /\ ~op[p].cancelled /\ MatchesActive(kpis, op[p].kpi)
        THEN /\ kpis' = AddAttachment(kpis, op[p].kpi,
                            Attachment(loc[p].fileID, op[p].filename), Actor(p))
             /\ stale' = MarkStale(p, {op[p].kpi})
             /\ Finish(p, Ok)
        ELSE IF op[p].cancelled
        THEN /\ Finish(p, Err({"add"}))
             /\ UNCHANGED <<kpis, stale>>
        ELSE /\ Goto(p, "u_cleanup")
             /\ UNCHANGED <<kpis, stale>>
    /\ UNCHANGED <<blobs, nextFile, op, loc, nops, compFailed>>

\* Third: s.repo.AddAttachment; on an error the cleanup follows.
UploadAdd(p) ==
    /\ pc[p] = "u_add"
    /\ ~Locked(op[p].kpi)
    /\ Called(p, <<"AddAttachment">>)
    /\ \E ok \in BOOLEAN :
        IF ok /\ ~op[p].cancelled /\ MatchesActive(kpis, op[p].kpi)
        THEN /\ kpis' = AddAttachment(kpis, op[p].kpi,
                            Attachment(loc[p].fileID, op[p].filename), Actor(p))
             /\ stale' = MarkStale(p, {op[p].kpi})
             /\ Finish(p, Ok)
        ELSE /\ Goto(p, "u_cleanup")
             /\ UNCHANGED <<kpis, stale>>
    /\ UNCHANGED <<blobs, nextFile, op, loc, nops, compFailed>>

\* A cleanup that deletes nothing.
UploadCleanupSkipped(bucket, fileID) == bucket

\* CLEANUP: s.repo.DeleteFile(context.Background(), fileID); the error
\* returned is the one of AddAttachment.
UploadCleanupDelete(bucket, fileID) == DeleteFile(bucket, fileID)

UploadCleanup(p) ==
    /\ pc[p] = "u_cleanup"
    /\ Called(p, <<"DeleteFile">>)
    /\ \E ok \in BOOLEAN :
        IF ok /\ DeleteFileFound(blobs, loc[p].fileID)
        THEN /\ blobs' = UploadCleanupDelete(blobs, loc[p].fileID)
             /\ loc' = [loc EXCEPT ![p].comp = "ok"]
             /\ UNCHANGED compFailed
        ELSE /\ loc' = [loc EXCEPT ![p].comp = "failed"]
             /\ compFailed' = TRUE
             /\ UNCHANGED blobs
    /\ Finish(p, Err({"add"}))
    /\ UNCHANGED <<kpis, nextFile, op, stale, nops>>

(***************************************************************************)
(* DeleteAttachment.                                                       *)
(***************************************************************************)

\* First: s.repo.GetByID and the scan of kpi.Attachments for the file id.
DeleteGet(p, id, fileID) ==
    /\ Begin(p, [NoOp EXCEPT !.kind = "delete", !.kpi = id, !.fileId = fileID])
    /\ Called(p, <<"GetByID">>)
    /\ \E ok \in BOOLEAN :
        IF ~(ok /\ GetByIDFound(kpis, id))
        THEN /\ Finish(p, Err({"get"}))
             /\ UNCHANGED loc
        ELSE LET i == ScanIndex(kpis[id].attachments, fileID) IN
             IF i = 0
             THEN /\ Finish(p, Err({"scan"}))
                  /\ UNCHANGED loc
             ELSE /\ loc' = [loc EXCEPT ![p].filename = kpis[id].attachments[i].filename]
                  /\ Goto(p, "d_remove")
    /\ UNCHANGED <<kpis, blobs, nextFile, stale, compFailed>>

\* Second: s.repo.RemoveAttachment.
DeleteRemove(p) ==
    /\ pc[p] = "d_remove"
    /\ ~Locked(op[p].kpi)
    /\ Called(p, <<"RemoveAttachment">>)
    /\ \E ok \in BOOLEAN :
        IF ok /\ ~op[p].cancelled /\ MatchesActive(kpis, op[p].kpi)
        THEN /\ kpis' = RemoveAttachment(kpis, op[p].kpi, op[p].fileId, Actor(p))
             /\ stale' = MarkStale(p, {op[p].kpi})
             /\ Goto(p, "d_delfile")
        ELSE /\ Finish(p, Err({"remove"}))
             /\ UNCHANGED <<kpis, stale>>
    /\ UNCHANGED <<blobs, nextFile, op, loc, nops, compFailed>>

\* Third: s.repo.DeleteFile; on an error the rollback follows.
DeleteBlob(p) ==
    /\ pc[p] = "d_delfile"
    /\ Called(p, <<"DeleteFile">>)
    /\ \E ok \in BOOLEAN :
        IF ok /\ DeleteFileFound(blobs, op[p].fileId)
        THEN /\ blobs' = DeleteFile(blobs, op[p].fileId)
             /\ Finish(p, Ok)
        ELSE /\ Goto(p, "d_rollback")
             /\ UNCHANGED blobs
    /\ UNCHANGED <<kpis, nextFile, op, loc, stale, nops, compFailed>>

\* ROLLBACK: the attachment re-added, with the filename the scan captured.
RollbackAttachment(fileID, filename) == Attachment(fileID, filename)

\* What DeleteAttachment returns after the rollback.
RollbackResult(rolledBack) ==
    IF rolledBack THEN Err({"delfile"}) ELSE Err({"delfile", "rollback"})

\* A rollback that is tried a second time when it fails.
DeleteRollbackRetriesOnce(p) ==
    /\ pc[p] = "d_rollback"
    /\ ~Locked(op[p].kpi)
    /\ Called(p, <<"AddAttachment">>)
    /\ \E ok \in BOOLEAN :
        IF ok /\ ~op[p].cancelled /\ MatchesActive(kpis, op[p].kpi)
        THEN /\ kpis' = AddAttachment(kpis, op[p].kpi,
                            RollbackAttachment(op[p].fileId, loc[p].filename), Actor(p))
             /\ stale' = MarkStale(p, {op[p].kpi})
             /\ loc' = [loc EXCEPT ![p].comp = "ok"]
             /\ Finish(p, RollbackResult(TRUE))
             /\ UNCHANGED compFailed
        ELSE IF "AddAttachment" \notin Range(trace[p])
        THEN /\ UNCHANGED <<kpis, stale, loc, compFailed, pc, res>>
        ELSE /\ loc' = [loc EXCEPT ![p].comp = "failed"]
             /\ compFailed' = TRUE
             /\ Finish(p, RollbackResult(FALSE))
             /\ UNCHANGED <<kpis, stale>>
    /\ UNCHANGED <<blobs, nextFile, op, nops>>

\* The re-insert after a failed DeleteFile; its failure is returned with the
\* deletion error.
DeleteRollback(p) ==
    /\ pc[p] = "d_rollback"
    /\ ~Locked(op[p].kpi)
    /\ Called(p, <<"AddAttachment">>)
    /\ \E ok \in BOOLEAN :
        IF ok /\ ~op[p].cancelled /\ MatchesActive(kpis, op[p].kpi)
        THEN /\ kpis' = AddAttachment(kpis, op[p].kpi,
                            RollbackAttachment(op[p].fileId, loc[p].filename), Actor(p))
             /\ stale' = MarkStale(p, {op[p].kpi})
             /\ loc' = [loc EXCEPT ![p].comp = "ok"]
             /\ Finish(p, RollbackResult(TRUE))
             /\ UNCHANGED compFailed
        ELSE /\ loc' = [loc EXCEPT ![p].comp = "failed"]
             /\ compFailed' = TRUE
             /\ Finish(p, RollbackResult(FALSE))
             /\ UNCHANGED <<kpis, stale>>
    /\ UNCHANGED <<blobs, nextFile, op, nops>>

(***************************************************************************)
(* TransferAttachment (handler) and TransferAttachmentBetweenKPIs.         *)
(***************************************************************************)

\* A handler without the check.
SameKPIUnchecked(from, to) == FALSE

\* The handler: "Validate that source and destination are different".
SameKPI(from, to) == from = to

Rejected == [status |-> "rejected", errs |-> {}]

\* The end of a transaction: its view and its locks are gone.
EndTxn(p) ==
    /\ loc' = [loc EXCEPT ![p].view = NoView, ![p].wset = {}]
    /\ stale' = [stale EXCEPT ![p] = {}]

\* A failed step that deletes the file before it aborts.
AbortDeletesFile(p, call, cause) ==
    /\ kpis' = AbortApply(kpis, loc[p].view, loc[p].wset)
    /\ Called(p, <<call, "DeleteFile", "AbortTransaction">>)
    /\ EndTxn(p)
    /\ Finish(p, Err({cause}))

\* A failed step: session.AbortTransaction, then the error is returned.
Abort(p, call, cause) ==
    /\ kpis' = AbortApply(kpis, loc[p].view, loc[p].wset)
    /\ Called(p, <<call, "AbortTransaction">>)
    /\ EndTxn(p)
    /\ Finish(p, Err({cause}))

\* The handler's check, client.StartSession and session.StartTransaction.
TransferStart(p, from, to, fileID) ==
    /\ Begin(p, [NoOp EXCEPT !.kind = "transfer", !.kpi = from, !.to = to,
                             !.fileId = fileID])
    /\ IF SameKPI(from, to)
       THEN /\ Finish(p, Rejected)
            /\ UNCHANGED trace
       ELSE \E ok \in BOOLEAN :
                IF ok
                THEN /\ Called(p, <<"StartSession", "StartTransaction">>)
                     /\ Goto(p, "t_getFrom")
                ELSE /\ Called(p, <<"StartSession">>)
                     /\ Finish(p, Err({"session"}))
    /\ UNCHANGED <<kpis, blobs, nextFile, loc, stale, compFailed>>

\* Step 1: GetByID of the source; the first read takes the snapshot.
TransferGetFrom(p) ==
    /\ pc[p] = "t_getFrom"
    /\ \E ok \in BOOLEAN :
        IF ok /\ GetByIDFound(kpis, op[p].kpi)
        THEN /\ loc' = [loc EXCEPT ![p].view = kpis]
             /\ stale' = [stale EXCEPT ![p] = {}]
             /\ Called(p, <<"GetByID">>)
             /\ Goto(p, "t_getTo")
             /\ UNCHANGED kpis
        ELSE Abort(p, "GetByID", "get_from")
    /\ UNCHANGED <<blobs, nextFile, op, nops, compFailed>>

\* Step 1, the destination, and step 2: the scan of the source's attachments.
TransferGetTo(p) ==
    /\ pc[p] = "t_getTo"
    /\ \E ok \in BOOLEAN :
        LET view == loc[p].view
            i == ScanIndex(view[op[p].kpi].attachments, op[p].fileId)
        IN  IF ~(ok /\ GetByIDFound(view, op[p].to))
            THEN Abort(p, "GetByID", "get_to")
            ELSE IF i = 0
            THEN Abort(p, "GetByID", "scan")
            ELSE /\ Called(p, <<"GetByID">>)
                 /\ loc' = [loc EXCEPT ![p].filename =
                                view[op[p].kpi].attachments[i].filename]
                 /\ Goto(p, "t_remove")
                 /\ UNCHANGED <<kpis, stale>>
    /\ UNCHANGED <<blobs, nextFile, op, nops, compFailed>>

\* Step 3: RemoveAttachment from the source, inside the transaction.
TransferRemove(p) ==
    /\ pc[p] = "t_remove"
    /\ \E ok \in BOOLEAN :
        IF ok /\ ~WriteConflict(p, op[p].kpi) /\ MatchesActive(loc[p].view, op[p].kpi)
        THEN /\ loc' = [loc EXCEPT
                    ![p].view = RemoveAttachment(@, op[p].kpi, op[p].fileId, Actor(p)),
                    ![p].wset = @ \cup {op[p].kpi}]
             /\ Called(p, <<"RemoveAttachment">>)
             /\ Goto(p, "t_add")
             /\ UNCHANGED <<kpis, stale>>
        ELSE Abort(p, "RemoveAttachment", "remove")
    /\ UNCHANGED <<blobs, nextFile, op, nops, compFailed>>

\* Step 4: AddAttachment to the destination, inside the transaction.
TransferAdd(p) ==
    /\ pc[p] = "t_add"
    /\ \E ok \in BOOLEAN :
        IF ok /\ ~WriteConflict(p, op[p].to) /\ MatchesActive(loc[p].view, op[p].to)
        THEN /\ loc' = [loc EXCEPT
                    ![p].view = AddAttachment(@, op[p].to,
                                    Attachment(op[p].fileId, loc[p].filename), Actor(p)),
                    ![p].wset = @ \cup {op[p].to}]
             /\ Called(p, <<"AddAttachment">>)
             /\ Goto(p, "t_commit")
             /\ UNCHANGED <<kpis, stale>>
        ELSE Abort(p, "AddAttachment", "add")
    /\ UNCHANGED <<blobs, nextFile, op, nops, compFailed>>

\* Step 5: CommitTransaction; on an error the transaction is aborted.
TransferCommit(p) ==
    /\ pc[p] = "t_commit"
    /\ \E ok \in BOOLEAN :
        IF ok
        THEN /\ kpis' = CommitApply(kpis, loc[p].view, loc[p].wset)
             /\ Called(p, <<"CommitTransaction">>)
             /\ loc' = [loc EXCEPT ![p].view = NoView, ![p].wset = {}]
             /\ stale' = [q \in Procs |-> IF q = p THEN {}
                                          ELSE MarkStale(p, loc[p].wset)[q]]
             /\ Finish(p, Ok)
        ELSE Abort(p, "CommitTransaction", "commit")
    /\ UNCHANGED <<blobs, nextFile, op, nops, compFailed>>

\* The steps of an upload or a delete after the lookup.
CancellablePcs == {"u_put", "u_add", "u_cleanup", "d_remove", "d_delfile", "d_rollback"}

\* The caller's context is cancelled or times out while the call is in
\* progress. The collection calls of an upload and of a delete run under the
\* caller's context and fail from then on; the GridFS calls take no context,
\* and the upload's cleanup runs under context.Background(). A transfer's
\* session context is derived from context.Background(): no store operation
\* of the transfer sees the cancellation.
Cancel(p) ==
    /\ \/ op[p].kind = "transfer" /\ pc[p] \in TxnPcs
       \/ op[p].kind \in {"upload", "delete"} /\ pc[p] \in CancellablePcs
    /\ ~op[p].cancelled
    /\ op' = [op EXCEPT ![p].cancelled = TRUE]
    /\ UNCHANGED <<kpis, blobs, nextFile, pc, loc, res, trace, stale, nops, compFailed>>

\* The handler has written the response: the request is over.
Return(p) ==
    /\ pc[p] = "done"
    /\ pc' = [pc EXCEPT ![p] = "idle"]
    /\ op' = [op EXCEPT ![p] = NoOp]
    /\ loc' = [loc EXCEPT ![p] = NoLoc]
    /\ res' = [res EXCEPT ![p] = NoRes]
    /\ trace' = [trace EXCEPT ![p] = <<>>]
    /\ stale' = [stale EXCEPT ![p] = {}]
    /\ UNCHANGED <<kpis, blobs, nextFile, nops, compFailed>>

(***************************************************************************)
(* Properties.                                                             *)
(***************************************************************************)
FileIds(id) == {kpis[id].attachments[i].fileId : i \in 1..Len(kpis[id].attachments)}

\* C1: an upload whose blob was stored and whose AddAttachment failed or
\* matched no active record has issued DeleteFile as its last call when it
\* returns its error, and when that deletion succeeded the bucket does not
\* hold the new blob.
C1_UploadCleansUpBlob ==
    \A p \in Procs :
        (/\ pc[p] = "done"
         /\ op[p].kind = "upload"
         /\ loc[p].fileID # 0
         /\ res[p].status = "error")
        => /\ trace[p] = <<"GetByID", "UploadFile", "AddAttachment", "DeleteFile">>
           /\ loc[p].comp = "ok" => loc[p].fileID \notin blobs

\* An upload to a record soft-deleted after the lookup has returned its
\* error after a successful cleanup.
C1_Witness ==
    \E p \in Procs :
        /\ pc[p] = "done"
        /\ op[p].kind = "upload"
        /\ loc[p].comp = "ok"
        /\ kpis[op[p].kpi].isDeleted

\* C2: when DeleteAttachment's rollback re-add succeeds, the operation
\* returns the blob-deletion error, the record holds {fileId, filename of the
\* scan} and the blob still exists.
C2_RollbackRestoresReference ==
    [][\A p \in Procs :
            (pc[p] = "d_rollback" /\ pc'[p] = "done" /\ loc'[p].comp = "ok")
            => /\ res'[p] = [status |-> "error", errs |-> {"delfile"}]
               /\ \E i \in 1..Len(kpis'[op[p].kpi].attachments) :
                    kpis'[op[p].kpi].attachments[i] =
                        [fileId |-> op[p].fileId, filename |-> loc[p].filename]
               /\ op[p].fileId \in blobs']_vars

\* C3: every step of a transfer that does not end in success leaves the
\* collection as it is, and a transfer that fails after its transaction
\* started ends with AbortTransaction: a failed transfer changes no
\* attachment list.
C3_TransferAllOrNothing ==
    [][\A p \in Procs :
            (/\ op'[p].kind = "transfer"
             /\ pc'[p] # pc[p]
             /\ ~(pc'[p] = "done" /\ res'[p].status = "ok"))
            => /\ kpis' = kpis
               /\ (pc'[p] = "done" /\ "StartTransaction" \in Range(trace'[p]))
                    => trace'[p][Len(trace'[p])] = "AbortTransaction"]_vars

\* A transfer has failed at the append to the destination, after the removal
\* from the source, and the source still holds the reference.
C3_Witness ==
    \E p \in Procs :
        /\ pc[p] = "done"
        /\ op[p].kind = "transfer"
        /\ res[p] = [status |-> "error", errs |-> {"add"}]
        /\ "RemoveAttachment" \in Range(trace[p])
        /\ op[p].fileId \in FileIds(op[p].kpi)
        /\ op[p].fileId \notin FileIds(op[p].to)

\* C4: when no operation is in progress, every file id in the attachment
\* list of a non-deleted record is the id of a blob in the bucket.
C4_NoDanglingReference ==
    Quiescent =>
        \A id \in KpiIds : MatchesActive(kpis, id) => FileIds(id) \subseteq blobs

\* C5: no attachment list holds two entries with the same file id.
C5_UniqueFileIds ==
    \A id \in KpiIds :
        \A i, j \in 1..Len(kpis[id].attachments) :
            i # j => kpis[id].attachments[i].fileId # kpis[id].attachments[j].fileId

\* C6: outside a transfer's transaction, each blob is referenced by at most
\* one non-deleted record.
C6_AtMostOneOwner ==
    (\A p \in Procs : ~InTxn(p)) =>
        \A fileID \in blobs :
            Cardinality({id \in KpiIds : MatchesActive(kpis, id) /\ fileID \in FileIds(id)}) <= 1

\* C7: when no operation is in progress and no compensation step has
\* failed, every blob in the bucket is referenced by the attachment list of
\* at least one non-deleted record.
C7_NoOrphanBlob ==
    (Quiescent /\ ~compFailed) =>
        \A fileID \in blobs :
            \E id \in KpiIds : MatchesActive(kpis, id) /\ fileID \in FileIds(id)

\* C7, counting the references of soft-deleted records too: UpdateKPI's
\* write of the document it read drops the reference of an upload in between.
C7_NoUnreferencedBlob ==
    (Quiescent /\ ~compFailed) =>
        \A fileID \in blobs : \E id \in KpiIds : fileID \in FileIds(id)

\* C8: an upload addressed to a record that is soft-deleted when the upload
\* looks it up ends at the lookup with an error, so that UploadFile is never
\* called.
C8_UploadToDeletedStopsAtLookup ==
    [][\A p \in Procs :
            (/\ pc[p] = "idle"
             /\ op'[p].kind = "upload"
             /\ kpis[op'[p].kpi].isDeleted)
            => (pc'[p] = "done" /\ res'[p].status = "error")]_vars

\* C9: a DeleteAttachment for a file id that is not in the record's list ends
\* at the scan with an error, having issued GetByID only, and leaves the
\* collection and the bucket as they are.
C9_DeleteUnknownAttachment ==
    [][\A p \in Procs :
            (/\ pc[p] = "idle"
             /\ op'[p].kind = "delete"
             /\ \A i \in 1..Len(kpis[op'[p].kpi].attachments) :
                    kpis[op'[p].kpi].attachments[i].fileId # op'[p].fileId)
            => /\ pc'[p] = "done"
               /\ res'[p].status = "error"
               /\ trace'[p] = <<"GetByID">>
               /\ kpis' = kpis
               /\ blobs' = blobs]_vars

\* A delete has failed at the scan of a record that holds other attachments,
\* for a file id whose blob exists and is referenced by another record.
C9_Witness ==
    \E p \in Procs :
        /\ pc[p] = "done"
        /\ op[p].kind = "delete"
        /\ res[p] = [status |-> "error", errs |-> {"scan"}]
        /\ Len(kpis[op[p].kpi].attachments) > 0
        /\ op[p].fileId \in blobs
        /\ \E id \in KpiIds \ {op[p].kpi} : op[p].fileId \in FileIds(id)

\* C10: a transfer whose source is its destination is over as soon as it is
\* requested, rejected, without a session, a transaction or any store call.
C10_TransferToSelfRejected ==
    \A p \in Procs :
        (op[p].kind = "transfer" /\ op[p].kpi = op[p].to)
        => /\ pc[p] = "done"
           /\ res[p].status = "rejected"
           /\ trace[p] = <<>>

\* A transfer from a record to itself, of a reference the record holds, has
\* been rejected.
C10_Witness ==
    \E p \in Procs :
        /\ pc[p] = "done"
        /\ op[p].kind = "transfer"
        /\ op[p].kpi = op[p].to
        /\ op[p].fileId \in FileIds(op[p].kpi)
        /\ res[p].status = "rejected"

\* C11: a DeleteAttachment whose RemoveAttachment runs when the record no
\* longer holds the file id (a concurrent delete of the same reference was
\* applied first) ends at that call with an error, so that it neither
\* deletes the blob nor re-inserts the reference.
C11_SecondRemoveMatchesNothing ==
    [][\A p \in Procs :
            (/\ pc[p] = "d_remove"
             /\ pc'[p] # pc[p]
             /\ op[p].fileId \notin FileIds(op[p].kpi))
            => (pc'[p] = "done" /\ res'[p].status = "error")]_vars

\* C12: of a DeleteAttachment(A, f) and a transfer of f out of A that have
\* both returned, at most one reports success, and when the destination
\* holds f the blob of f exists.
C12_DeleteTransferRaceHasLoser ==
    \A p, q \in Procs :
        (/\ pc[p] = "done" /\ op[p].kind = "delete"
         /\ pc[q] = "done" /\ op[q].kind = "transfer"
         /\ op[p].kpi = op[q].kpi
         /\ op[p].fileId = op[q].fileId)
        => /\ ~(res[p].status = "ok" /\ res[q].status = "ok")
           /\ (MatchesActive(kpis, op[q].to) /\ op[q].fileId \in FileIds(op[q].to))
                => op[q].fileId \in blobs

\* C13: no push or pull of an upload or a delete loses another's: each step
\* of an upload or of a delete leaves every other record as it is, the
\* successful append adds exactly its reference after the entries the list
\* holds at that moment, the removal takes out exactly the entries of its
\* file id, and no other step of a successful call changes the list.
C13_PushPullKeepOtherEntries ==
    [][\A p \in Procs :
            (pc'[p] # pc[p] /\ op'[p].kind \in {"upload", "delete"})
            => LET k == op'[p].kpi
                   before == kpis[k].attachments
                   after == kpis'[k].attachments
               IN  /\ \A id \in KpiIds \ {k} : kpis'[id] = kpis[id]
                   /\ IF pc[p] = "u_add" /\ pc'[p] = "done"
                      THEN after = Append(before,
                                [fileId |-> loc[p].fileID, filename |-> op[p].filename])
                      ELSE IF pc[p] = "d_remove" /\ pc'[p] = "d_delfile"
                      THEN after = SelectSeq(before, LAMBDA a : a.fileId # op[p].fileId)
                      ELSE pc[p] # "d_rollback" => after = before]_vars

\* An upload and a delete of another file id on the same record have both
\* succeeded, the delete having scanned before the upload's append and
\* removed after it: the record holds the uploaded reference and not the
\* deleted one.
C13_Witness ==
    \E p, q \in Procs :
        /\ pc[p] = "done" /\ op[p].kind = "upload" /\ res[p].status = "ok"
        /\ pc[q] = "done" /\ op[q].kind = "delete" /\ res[q].status = "ok"
        /\ op[p].kpi = op[q].kpi
        /\ loc[p].fileID # op[q].fileId
        /\ FileIds(op[p].kpi) = {loc[p].fileID}

\* C14: an upload whose append failed and whose cleanup failed too returns
\* an error that carries both the append error and the cleanup error.
C14_UploadChainsCleanupError ==
    \A p \in Procs :
        (pc[p] = "done" /\ op[p].kind = "upload" /\ loc[p].comp = "failed")
        => res[p] = [status |-> "error", errs |-> {"add", "cleanup"}]

\* C15: a delete whose blob deletion failed and whose re-insert failed too
\* returns an error carrying both, has issued no call after the re-insert,
\* and leaves the record without the reference while the blob exists.
C15_DeleteDoubleFailure ==
    [][\A p \in Procs :
            (pc[p] = "d_rollback" /\ pc'[p] = "done" /\ loc'[p].comp = "failed")
            => /\ res'[p] = [status |-> "error", errs |-> {"delfile", "rollback"}]
               /\ trace'[p] = <<"GetByID", "RemoveAttachment", "DeleteFile",
                                "AddAttachment">>
               /\ \A i \in 1..Len(kpis'[op[p].kpi].attachments) :
                    kpis'[op[p].kpi].attachments[i].fileId # op[p].fileId
               /\ op[p].fileId \in blobs']_vars

\* C16: soft delete is final: a record whose isDeleted flag is true has it
\* true after every step, the write of an UpdateKPI that read the record
\* before the soft delete included.
C16_SoftDeleteIsFinal ==
    [][\A id \in KpiIds :
            (kpis[id].exists /\ kpis[id].isDeleted)
            => (kpis'[id].exists /\ kpis'[id].isDeleted)]_vars

\* C18: every mutation addressed to a soft-deleted record fails and leaves
\* the stored record unchanged: no step changes a record that is soft
\* deleted, and an update, a soft delete, an append or a removal that
\* reaches the store for such a record ends its call in an error.
C18_DeletedRecordRejectsMutations ==
    [][\A id \in KpiIds :
            (kpis[id].exists /\ kpis[id].isDeleted)
            => /\ kpis'[id] = kpis[id]
               /\ \A p \in Procs :
                    (/\ op'[p].kpi = id
                     /\ \/ pc[p] \in {"upd_write", "u_add", "d_remove"}
                        \/ pc[p] = "idle" /\ op'[p].kind = "softdelete"
                     /\ pc'[p] # pc[p])
                    => \/ pc'[p] = "done" /\ res'[p].status = "error"
                       \/ pc[p] = "u_add" /\ pc'[p] = "u_cleanup"]_vars

\* C17: no read returns a soft-deleted record: a GetKPIByID of a record that
\* is soft deleted when it is read reports not found, and the result of a
\* GetAllKPIs holds no record that is soft deleted when it is read.
C17_ReadsSkipDeleted ==
    [][\A p \in Procs :
            (pc[p] = "idle" /\ pc'[p] = "done" /\ op'[p].kind \in {"get", "getall"})
            => /\ \A id \in loc'[p].read : ~kpis[id].isDeleted
               /\ (op'[p].kind = "get" /\ kpis[op'[p].kpi].isDeleted)
                    => res'[p].status = "error"]_vars

\* C19: a cancellation of the caller's context reaches the transaction: the
\* first store operation of a transfer after its caller's context was
\* cancelled fails, the transfer ends in an error and the collection is as
\* it was, so that nothing is committed after the cancellation.
C19_CancelAbortsTransfer ==
    [][\A p \in Procs :
            (op[p].cancelled /\ pc[p] \in TxnPcs /\ pc'[p] # pc[p])
            => /\ pc'[p] = "done"
               /\ res'[p].status = "error"
               /\ kpis' = kpis]_vars

\* The label the classification table gives an actual_percent of 0..100.
Label(v) ==
    CASE v = 100 -> "Completed"
      [] v \in 50..99 -> "On Track"
      [] v \in 25..49 -> "At Risk"
      [] v \in 1..24 -> "Behind"
      [] v = 0 -> "Not Started"

\* C20: the status classification is exact at its boundaries: in the result
\* of GetKPIPerformanceStats every non-deleted record, whatever integer of
\* 0..100 its actualPercent is, is counted in the bucket of its label
\* (100 Completed, 50..99 On Track, 25..49 At Risk, 1..24 Behind, 0 Not
\* Started) and in no other bucket.
C20_StatusBoundaries ==
    \A p \in Procs :
        (pc[p] = "done" /\ op[p].kind = "stats" /\ res[p].status = "ok")
        => LET active == {id \in DOMAIN kpis : kpis[id].exists /\ ~kpis[id].isDeleted}
               buckets == Range(loc[p].stats)
           IN  /\ \A id \in active :
                    \E b \in buckets : b.status = Label(kpis[id].actualPercent)
               /\ \A b \in buckets :
                    b.count = Cardinality({id \in active :
                                              Label(kpis[id].actualPercent) = b.status})

\* A statistics call has answered with an On Track bucket for a record at
\* the boundary 50 and a Completed bucket for one at 100.
C20_Witness ==
    \E p \in Procs :
        /\ pc[p] = "done" /\ op[p].kind = "stats" /\ res[p].status = "ok"
        /\ ~kpis[1].isDeleted /\ kpis[1].actualPercent = 50
        /\ ~kpis[2].isDeleted /\ kpis[2].actualPercent = 100
        /\ \E i, j \in DOMAIN loc[p].stats :
            /\ loc[p].stats[i].status = "On Track"
            /\ loc[p].stats[j].status = "Completed"

\* The active records of the statistics' collection that the table labels s.
Labelled(s) ==
    {id \in StatsIds : kpis[id].exists /\ ~kpis[id].isDeleted
                        /\ Label(kpis[id].actualPercent) = s}

\* C21: the aggregation emits one bucket for each label that has an active
\* record and none for a label without, in an order of non-increasing
\* count; for three active records of percents 0, 0 and 100 the result is
\* Not Started (count 2, average 0) followed by Completed (count 1,
\* average 100).
C21_BucketsOmittedAndSorted ==
    \A p \in Procs :
        (pc[p] = "done" /\ op[p].kind = "stats" /\ res[p].status = "ok")
        => LET result == loc[p].stats
           IN  /\ \A i \in DOMAIN result :
                    /\ Labelled(result[i].status) # {}
                    /\ result[i].count > 0
               /\ \A i, j \in DOMAIN result :
                    i # j => result[i].status # result[j].status
               /\ \A s \in {"Completed", "On Track", "At Risk", "Behind", "Not Started"} :
                    Labelled(s) # {} => \E i \in DOMAIN result : result[i].status = s
               /\ \A i, j \in DOMAIN result :
                    i < j => result[i].count >= result[j].count
               /\ (/\ \A id \in StatsIds : ~kpis[id].isDeleted
                   /\ \E a, b, c \in StatsIds :
                        /\ {a, b, c} = StatsIds
                        /\ kpis[a].actualPercent = 0
                        /\ kpis[b].actualPercent = 0
                        /\ kpis[c].actualPercent = 100)
                  => /\ Len(result) = 2
                     /\ result[1].status = "Not Started"
                     /\ result[1].count = 2
                     /\ result[1].avgCompletion.sum = 0 * result[1].avgCompletion.of
                     /\ result[2].status = "Completed"
                     /\ result[2].count = 1
                     /\ result[2].avgCompletion.sum = 100 * result[2].avgCompletion.of

\* A statistics call has answered for three active records of percents 0,
\* 0 and 100.
C21_Witness ==
    \E p \in Procs :
        /\ pc[p] = "done" /\ op[p].kind = "stats" /\ res[p].status = "ok"
        /\ \A id \in StatsIds : ~kpis[id].isDeleted
        /\ kpis[1].actualPercent = 0
        /\ kpis[2].actualPercent = 0
        /\ kpis[3].actualPercent = 100
        /\ Len(loc[p].stats) = 2

\* C22: each emitted bucket's count is the number of non-deleted records of
\* its label and its totalAttachments the sum of the lengths of their
\* attachment lists; soft-deleted records are in no bucket, so that the
\* counts sum to the number of active records.
C22_CountsOverActiveRecords ==
    \A p \in Procs :
        (pc[p] = "done" /\ op[p].kind = "stats" /\ res[p].status = "ok")
        => LET result == loc[p].stats
               held(s, id) == IF id \in Labelled(s)
                              THEN Len(kpis[id].attachments) ELSE 0
               counted(i) == IF i \in DOMAIN result THEN result[i].count ELSE 0
           IN  /\ \A i \in DOMAIN result :
                    /\ result[i].count = Cardinality(Labelled(result[i].status))
                    /\ result[i].totalAttachments =
                            held(result[i].status, 1) + held(result[i].status, 2)
                                + held(result[i].status, 3)
               /\ Len(result) <= 3
               /\ counted(1) + counted(2) + counted(3) =
                    Cardinality({id \in StatsIds : kpis[id].exists /\ ~kpis[id].isDeleted})

\* A statistics call has answered while a soft-deleted record holding a file
\* is stored next to two active records of one label that hold a file or
\* none.
C22_Witness ==
    \E p \in Procs :
        /\ pc[p] = "done" /\ op[p].kind = "stats" /\ res[p].status = "ok"
        /\ kpis[2].isDeleted /\ kpis[2].attachments # <<>>
        /\ ~kpis[1].isDeleted /\ ~kpis[3].isDeleted
        /\ kpis[3].attachments # <<>>
        /\ kpis[1].actualPercent = 100 /\ kpis[3].actualPercent = 100
        /\ Len(loc[p].stats) = 1
        /\ loc[p].stats[1].count = 2
        /\ loc[p].stats[1].totalAttachments = 1

\* C23: a transfer never touches the blob store: every step of a transfer,
\* on a successful and on a failed path, leaves the set of blobs and the
\* blob ids as they are, and the calls of a transfer include no creation,
\* read or deletion of a blob.
C23_TransferLeavesBlobs ==
    [][\A p \in Procs :
            (op'[p].kind = "transfer" /\ pc'[p] # pc[p] /\ pc[p] # "done")
            => /\ blobs' = blobs
               /\ nextFile' = nextFile
               /\ Range(trace'[p]) \cap {"UploadFile", "DownloadFile", "DeleteFile"} = {}]_vars

\* A transfer has committed and another has been aborted after its removal,
\* with the blob of each in the bucket.
C23_Witness ==
    \E p, q \in Procs :
        /\ pc[p] = "done" /\ op[p].kind = "transfer" /\ res[p].status = "ok"
        /\ pc[q] = "done" /\ op[q].kind = "transfer" /\ res[q] = Err({"add"})
        /\ op[p].fileId \in blobs
        /\ op[q].fileId \in blobs

\* C24: a DeleteAttachment returns success only after its RemoveAttachment
\* and its DeleteFile both succeeded, these being its last two calls, and
\* the blob is gone when it returns; when the only other call ever issued
\* is the upload that created the reference (so that no operation ran
\* concurrently), the record has no entry of the file id at the return.
C24_DeleteSuccess ==
    [][\A p \in Procs :
            (/\ op'[p].kind = "delete"
             /\ pc[p] # "done" /\ pc'[p] = "done"
             /\ res'[p].status = "ok")
            => /\ pc[p] = "d_delfile"
               /\ trace'[p] = <<"GetByID", "RemoveAttachment", "DeleteFile">>
               /\ op[p].fileId \in blobs
               /\ op[p].fileId \notin blobs'
               /\ nops = 2 =>
                    \A i \in 1..Len(kpis'[op[p].kpi].attachments) :
                        kpis'[op[p].kpi].attachments[i].fileId # op[p].fileId]_vars

\* A delete has succeeded as the second call ever issued, after the upload
\* of the reference.
C24_Witness ==
    \E p \in Procs :
        /\ pc[p] = "done" /\ op[p].kind = "delete" /\ res[p].status = "ok"
        /\ nops = 2
        /\ op[p].fileId \notin blobs
        /\ kpis[op[p].kpi].attachments = <<>>

\* C25: an UploadAttachment returns success only after its UploadFile and
\* its AddAttachment both succeeded; the file id of the reference it returns
\* is the id of the blob its UploadFile newly stored, the filename is the
\* given one, the blob exists at the return, and the reference is the last
\* entry of the record's attachment list when the append is applied.
C25_UploadSuccess ==
    [][\A p \in Procs :
            /\ (pc[p] = "u_put" /\ pc'[p] = "u_add")
                => /\ loc'[p].fileID \notin blobs
                   /\ blobs' = blobs \cup {loc'[p].fileID}
            /\ (/\ op'[p].kind = "upload"
                /\ pc[p] # "done" /\ pc'[p] = "done"
                /\ res'[p].status = "ok")
                => LET list == kpis'[op[p].kpi].attachments
                   IN  /\ pc[p] = "u_add"
                       /\ trace'[p] = <<"GetByID", "UploadFile", "AddAttachment">>
                       /\ loc'[p].fileID \in blobs'
                       /\ Len(list) = Len(kpis[op[p].kpi].attachments) + 1
                       /\ list[Len(list)] = [fileId |-> loc'[p].fileID,
                                             filename |-> op'[p].filename]]_vars

\* An upload has succeeded on a record that held a reference already: the
\* new reference is the second entry.
C25_Witness ==
    \E p \in Procs :
        /\ pc[p] = "done" /\ op[p].kind = "upload" /\ res[p].status = "ok"
        /\ Len(kpis[op[p].kpi].attachments) = 2
        /\ kpis[op[p].kpi].attachments[2].fileId = loc[p].fileID
        /\ loc[p].fileID \in blobs

\* C26: a DeleteAttachment removes the reference before it deletes the
\* blob: its calls are, in this order, GetByID, RemoveAttachment, DeleteFile
\* and the re-insert. When no operation ran concurrently (the delete is the
\* second call ever issued, after the upload of the reference), in no state
\* of the run, each a state a crash may leave, does the record hold the
\* reference while the blob is absent, and between the removal and the blob
\* deletion the blob exists and no record references it.
C26_ReferenceRemovedBeforeBlob ==
    \A p \in Procs :
        op[p].kind = "delete"
        => /\ \E n \in 0..4 :
                trace[p] = SubSeq(<<"GetByID", "RemoveAttachment", "DeleteFile",
                                    "AddAttachment">>, 1, n)
           /\ nops = 2
                => /\ op[p].fileId \in FileIds(op[p].kpi) => op[p].fileId \in blobs
                   /\ pc[p] = "d_delfile"
                        => /\ op[p].fileId \in blobs
                           /\ \A id \in KpiIds : op[p].fileId \notin FileIds(id)

\* A delete, the second call ever issued, has removed the reference and has
\* not yet deleted the blob.
C26_Witness ==
    \E p \in Procs :
        /\ op[p].kind = "delete" /\ pc[p] = "d_delfile"
        /\ nops = 2
        /\ op[p].fileId \in blobs

\* C27: an UploadAttachment whose UploadFile fails returns the error at once:
\* its calls are GetByID and UploadFile, neither AddAttachment nor DeleteFile
\* is issued, no compensation is attempted, and no step of the call has
\* changed a record.
C27_PutFailureFrame ==
    [][\A p \in Procs :
            /\ (op'[p].kind = "upload" /\ pc[p] \in {"idle", "u_put"} /\ pc'[p] # pc[p])
                => kpis' = kpis
            /\ (pc[p] = "u_put" /\ pc'[p] \notin {"u_put", "u_add"})
                => /\ pc'[p] = "done"
                   /\ res'[p] = [status |-> "error", errs |-> {"put"}]
                   /\ trace'[p] = <<"GetByID", "UploadFile">>
                   /\ loc'[p].comp = "none"]_vars

\* An upload has failed at UploadFile on a record that holds a reference.
C27_Witness ==
    \E p \in Procs :
        /\ pc[p] = "done" /\ op[p].kind = "upload"
        /\ res[p] = [status |-> "error", errs |-> {"put"}]
        /\ kpis[op[p].kpi].attachments # <<>>

\* C28: a transfer whose source or destination is missing or soft deleted
\* when it is fetched is aborted at that fetch with a not-found failure,
\* before a pull or a push is issued, and the step changes no record.
C28_TransferAbortsAtFetch ==
    [][\A p \in Procs :
            LET gone(store, id) == ~store[id].exists \/ store[id].isDeleted
                fetchFailed(cause) ==
                    /\ pc'[p] = "done"
                    /\ res'[p] = [status |-> "error", errs |-> {cause}]
                    /\ Range(trace'[p]) \cap {"RemoveAttachment", "AddAttachment"} = {}
                    /\ kpis' = kpis
            IN  /\ (pc[p] = "t_getFrom" /\ pc'[p] # pc[p] /\ gone(kpis, op[p].kpi))
                    => fetchFailed("get_from")
                /\ (pc[p] = "t_getTo" /\ pc'[p] # pc[p] /\ gone(loc[p].view, op[p].to))
                    => fetchFailed("get_to")]_vars

\* C29: the commit of a transfer makes the removal and the addition visible
\* together: the step that commits takes the reference, with the file id
\* and the filename it has in the source, out of the source's list and puts
\* it last in the destination's, and no other step of a transfer changes a
\* stored record, so that no state of the collection shows one without the
\* other.
C29_TransferCommitAtomic ==
    [][\A p \in Procs :
            (op'[p].kind = "transfer" /\ pc'[p] # pc[p] /\ pc[p] # "done")
            => LET from == op[p].kpi
                   to == op[p].to
                   f == op[p].fileId
                   committed == pc[p] = "t_commit" /\ pc'[p] = "done"
                                    /\ res'[p].status = "ok"
               IN  IF committed
                   THEN /\ \E i \in 1..Len(kpis[from].attachments) :
                            /\ kpis[from].attachments[i].fileId = f
                            /\ kpis'[to].attachments =
                                    Append(kpis[to].attachments, kpis[from].attachments[i])
                        /\ kpis'[from].attachments =
                                SelectSeq(kpis[from].attachments, LAMBDA a : a.fileId # f)
                   ELSE kpis' = kpis]_vars

\* A transfer has committed: the destination holds the reference with the
\* filename of the upload and the source does not hold it.
C29_Witness ==
    \E p \in Procs :
        /\ pc[p] = "done" /\ op[p].kind = "transfer" /\ res[p].status = "ok"
        /\ op[p].fileId \in FileIds(op[p].to)
        /\ op[p].fileId \notin FileIds(op[p].kpi)
        /\ \E i \in 1..Len(kpis[op[p].to].attachments) :
            kpis[op[p].to].attachments[i] = [fileId |-> op[p].fileId, filename |-> "b.pdf"]

\* The number of times a call has issued the store call name.
Issued(p, name) == Cardinality({i \in DOMAIN trace[p] : trace[p][i] = name})

\* C30: every upload, delete and transfer call eventually returns a result
\* or an error, provided each store call returns: a call in progress leads
\* to its return. Each store step is issued at most once per call, plus at
\* most one compensation step: the calls of an upload are a prefix of
\* GetByID, UploadFile, AddAttachment, DeleteFile, those of a delete a
\* prefix of GetByID, RemoveAttachment, DeleteFile, AddAttachment, and a
\* transfer issues each of its calls once, GetByID once for the source and
\* once for the destination.
C30_CallsTerminate ==
    /\ [](\A p \in Procs :
            /\ op[p].kind = "upload"
                => \E n \in 0..4 :
                    trace[p] = SubSeq(<<"GetByID", "UploadFile", "AddAttachment",
                                        "DeleteFile">>, 1, n)
            /\ op[p].kind = "delete"
                => \E n \in 0..4 :
                    trace[p] = SubSeq(<<"GetByID", "RemoveAttachment", "DeleteFile",
                                        "AddAttachment">>, 1, n)
            /\ op[p].kind = "transfer"
                => \A name \in Range(trace[p]) :
                    Issued(p, name) <= IF name = "GetByID" THEN 2 ELSE 1)
    /\ \A p \in Procs : (pc[p] \notin {"idle", "done"}) ~> (pc[p] = "done")

\* A delete has returned after its compensation step and a transfer after
\* its commit.
C30_Witness ==
    \E p, q \in Procs :
        /\ pc[p] = "done" /\ op[p].kind = "delete"
        /\ trace[p] = <<"GetByID", "RemoveAttachment", "DeleteFile", "AddAttachment">>
        /\ pc[q] = "done" /\ op[q].kind = "transfer"
        /\ trace[q] = <<"StartSession", "StartTransaction", "GetByID", "GetByID",
                        "RemoveAttachment", "AddAttachment", "CommitTransaction">>

\* C31: UpdateKPI always overwrites actualPercent with the request's value,
\* zero included, whereas an empty goal, an empty description or a zero
\* dueDate of the request leaves the value of the record read: the document
\* the update holds after its lookup has the request's actualPercent and,
\* for each of the three fields, the request's value if it is not the zero
\* value and the stored one otherwise, and this document is what a
\* successful update stores.
C31_UpdateOverwritesPercent ==
    [][\A p \in Procs :
            /\ (pc[p] = "idle" /\ pc'[p] = "upd_write")
                => LET stored == kpis[op'[p].kpi]
                       held == loc'[p].existing
                   IN  /\ held.actualPercent = op'[p].percent
                       /\ held.goal = IF op'[p].goal = "" THEN stored.goal
                                      ELSE op'[p].goal
                       /\ held.description = IF op'[p].description = ""
                                             THEN stored.description
                                             ELSE op'[p].description
                       /\ held.dueDate = IF op'[p].dueDate = 0 THEN stored.dueDate
                                         ELSE op'[p].dueDate
            /\ (pc[p] = "upd_write" /\ pc'[p] = "done" /\ res'[p].status = "ok")
                => kpis'[op[p].kpi] = loc[p].existing]_vars

\* An update whose request has neither actualPercent nor goal has succeeded
\* on a record of completion 50 and of a goal set by an earlier update: the
\* completion is 0 and the goal is kept.
C31_Witness ==
    \E p \in Procs :
        /\ pc[p] = "done" /\ op[p].kind = "update" /\ res[p].status = "ok"
        /\ op[p].percent = 0 /\ op[p].goal = "" /\ op[p].dueDate = 2
        /\ loc[p].existing.goal = "goal2"
        /\ kpis[op[p].kpi].actualPercent = 0
        /\ kpis[op[p].kpi].goal = "goal2"
        /\ kpis[op[p].kpi].dueDate = 2

\* C32: every record CreateKPI produces is stored with isDeleted false and
\* an empty attachment list, whatever the request supplied, and so
\* references no blob.
C32_CreatedRecordIsEmpty ==
    [][\A id \in KpiIds :
            (~kpis[id].exists /\ kpis'[id].exists)
            => /\ kpis'[id].isDeleted = FALSE
               /\ kpis'[id].attachments = <<>>]_vars

\* C33: UpdateKPI does not change a record's attachment list: no step of an
\* update, whatever upload, delete or transfer ran since its lookup, changes
\* the attachment list of a record, so that the list is the one the
\* attachment operations alone produce.
C33_UpdateKeepsAttachments ==
    [][\A p \in Procs :
            (op'[p].kind = "update" /\ pc'[p] # pc[p] /\ pc[p] # "done")
            => \A id \in KpiIds : kpis'[id].attachments = kpis[id].attachments]_vars

\* C34: of two transfers of one reference out of one source record to two
\* different destinations, the only calls issued, at most one commits; in
\* no state is a reference in the lists of two records, and the reference
\* of every blob is in the list of exactly one record, so that after both
\* have returned exactly one record holds it.
C34_OneTransferWins ==
    /\ \A fileID \in 1..MaxFiles :
        Cardinality({id \in DOMAIN kpis : fileID \in FileIds(id)})
            = IF fileID \in blobs THEN 1 ELSE 0
    /\ \A p, q \in Procs :
        (/\ nops = 2 /\ p # q
         /\ pc[p] = "done" /\ op[p].kind = "transfer"
         /\ pc[q] = "done" /\ op[q].kind = "transfer"
         /\ op[p].kpi = op[q].kpi /\ op[p].fileId = op[q].fileId
         /\ op[p].to # op[q].to)
        => ~(res[p].status = "ok" /\ res[q].status = "ok")

\* Two transfers of file 1 out of record 1, to record 2 and to record 3,
\* have both run through their removal step and returned: one has
\* committed, the other has failed at its removal.
C34_Witness ==
    \E p, q \in Procs :
        /\ nops = 2 /\ p # q
        /\ pc[p] = "done" /\ op[p].kind = "transfer" /\ res[p].status = "ok"
        /\ pc[q] = "done" /\ op[q].kind = "transfer" /\ res[q] = Err({"remove"})
        /\ op[p].kpi = 1 /\ op[q].kpi = 1
        /\ op[p].fileId = 1 /\ op[q].fileId = 1
        /\ op[p].to = 2 /\ op[q].to = 3
        /\ FileIds(2) = {1} /\ FileIds(1) = {} /\ FileIds(3) = {}

\* C35: the cleanup of an upload does not depend on the caller's context:
\* an upload whose caller's context is cancelled after the blob was stored
\* fails at the append, DeleteFile is still issued on the new blob, and when
\* that deletion succeeds the blob is gone at the return.
C35_CleanupAfterCancel ==
    [][\A p \in Procs :
            /\ (op[p].cancelled /\ pc[p] = "u_add" /\ pc'[p] # pc[p])
                => /\ pc'[p] = "u_cleanup"
                   /\ kpis' = kpis
            /\ (op[p].cancelled /\ pc[p] = "u_cleanup" /\ pc'[p] # pc[p])
                => /\ pc'[p] = "done"
                   /\ trace'[p] = <<"GetByID", "UploadFile", "AddAttachment", "DeleteFile">>
                   /\ res'[p].status = "error"
                   /\ loc'[p].comp = "ok" => loc[p].fileID \notin blobs'
                   /\ loc'[p].comp \in {"ok", "failed"}]_vars

\* An upload cancelled after its blob was stored has returned after a
\* successful cleanup: the blob is gone and the record holds no reference.
C35_Witness ==
    \E p \in Procs :
        /\ pc[p] = "done" /\ op[p].kind = "upload" /\ op[p].cancelled
        /\ loc[p].comp = "ok"
        /\ loc[p].fileID \notin blobs
        /\ MatchesActive(kpis, op[p].kpi)
        /\ loc[p].fileID \notin FileIds(op[p].kpi)

AttachmentStep(p) ==
        \/ \E id \in KpiIds : SoftDeleteKPI(p, id)
        \/ \E id \in KpiIds, filename \in Filenames : UploadGet(p, id, filename)
        \/ UploadPut(p)
        \/ UploadAdd(p)
        \/ UploadCleanup(p)
        \/ \E id \in KpiIds, fileID \in 1..MaxFiles : DeleteGet(p, id, fileID)
        \/ DeleteRemove(p)
        \/ DeleteBlob(p)
        \/ DeleteRollback(p)
        \/ \E from \in KpiIds, to \in KpiIds, fileID \in 1..MaxFiles :
                TransferStart(p, from, to, fileID)
        \/ TransferGetFrom(p)
        \/ TransferGetTo(p)
        \/ TransferRemove(p)
        \/ TransferAdd(p)
        \/ TransferCommit(p)
        \/ Return(p)

Next == \E p \in Procs : AttachmentStep(p)

Spec == Init /\ [][Next]_vars

(***************************************************************************)
(* The whole service, from one record: records are created and updated     *)
(* while attachments are uploaded, deleted and transferred.                *)
(***************************************************************************)
InitLife ==
    /\ kpis = [id \in KpiIds |-> IF id = 1 THEN NewDoc ELSE NoDoc]
    /\ blobs = {}
    /\ nextFile = 1
    /\ pc = [p \in Procs |-> "idle"]
    /\ op = [p \in Procs |-> NoOp]
    /\ loc = [p \in Procs |-> NoLoc]
    /\ res = [p \in Procs |-> NoRes]
    /\ trace = [p \in Procs |-> <<>>]
    /\ stale = [p \in Procs |-> {}]
    /\ nops = 0
    /\ compFailed = FALSE

NextLife ==
    \E p \in Procs :
        \/ AttachmentStep(p)
        \/ \E attachments \in RequestAttachments, percent \in Percents :
                CreateKPI(p, attachments, percent)
        \/ \E id \in KpiIds, kpi \in HandlerRequests : UpdateGet(p, id, kpi)
        \/ UpdateWrite(p)

SpecLife == InitLife /\ [][NextLife]_vars

\* The record lifecycle with the two read requests.
NextRead ==
    \/ NextLife
    \/ \E p \in Procs :
        \/ \E id \in KpiIds : GetKPIByID(p, id)
        \/ GetAllKPIs(p)

SpecRead == InitLife /\ [][NextRead]_vars

\* The attachment operations with cancellation of a transfer's caller.
NextCancel ==
    \/ Next
    \/ \E p \in Procs : Cancel(p)

SpecCancel == Init /\ [][NextCancel]_vars

\* The aggregation on stored records of every actual_percent: record 1 has
\* any value of 0..100, records 2 and 3 one of the ends; each record is
\* soft deleted or not, records 2 and 3 hold one uploaded file or none.
InitStats ==
    /\ \E percent \in 0..MaxPercent, p2, p3 \in EndPercents,
          deleted \in [StatsIds -> BOOLEAN], held \in SUBSET {2, 3} :
            kpis = [id \in StatsIds |->
                      [NewDoc EXCEPT
                          !.isDeleted = deleted[id],
                          !.actualPercent = IF id = 1 THEN percent
                                            ELSE IF id = 2 THEN p2 ELSE p3,
                          !.attachments = IF id \in held
                                          THEN <<Attachment(id - 1, "a.pdf")>>
                                          ELSE <<>>]]
    /\ blobs = {kpis[id].attachments[1].fileId :
                    id \in {i \in StatsIds : kpis[i].attachments # <<>>}}
    /\ nextFile = MaxFiles + 1
    /\ pc = [p \in Procs |-> "idle"]
    /\ op = [p \in Procs |-> NoOp]
    /\ loc = [p \in Procs |-> NoLoc]
    /\ res = [p \in Procs |-> NoRes]
    /\ trace = [p \in Procs |-> <<>>]
    /\ stale = [p \in Procs |-> {}]
    /\ nops = 0
    /\ compFailed = FALSE

NextStats == \E p \in Procs : GetKPIPerformanceStats(p) \/ Return(p)

SpecStats == InitStats /\ [][NextStats]_vars

\* The steps of a call in progress: each is the return of the store call the
\* service is waiting for.
Continue(p) ==
    \/ UploadPut(p) \/ UploadAdd(p) \/ UploadCleanup(p)
    \/ DeleteRemove(p) \/ DeleteBlob(p) \/ DeleteRollback(p)
    \/ TransferGetFrom(p) \/ TransferGetTo(p) \/ TransferRemove(p)
    \/ TransferAdd(p) \/ TransferCommit(p)

\* Record 1 holds the reference of an upload that has returned.
InitFair ==
    /\ kpis = [id \in KpiIds |->
                IF id = 1
                THEN [NewDoc EXCEPT !.attachments = <<Attachment(1, "a.pdf")>>,
                                    !.updatedBy = Actor(1)]
                ELSE NewDoc]
    /\ blobs = {1}
    /\ nextFile = 2
    /\ pc = [p \in Procs |-> "idle"]
    /\ op = [p \in Procs |-> NoOp]
    /\ loc = [p \in Procs |-> NoLoc]
    /\ res = [p \in Procs |-> NoRes]
    /\ trace = [p \in Procs |-> <<>>]
    /\ stale = [p \in Procs |-> {}]
    /\ nops = 0
    /\ compFailed = FALSE

\* The attachment operations, MaxFairOps calls of them.
NextFair ==
    \E p \in Procs :
        /\ pc[p] = "idle" => nops < MaxFairOps
        /\ AttachmentStep(p)

\* The attachment operations when every store call returns: a call in
\* progress whose next step stays possible takes it.
SpecFair == InitFair /\ [][NextFair]_vars /\ \A p \in Procs : WF_vars(Continue(p))

\* The service's UpdateKPI on record 1, called with every request.
NextUpdate ==
    \E p \in Procs :
        \/ \E id \in KpiIds, kpi \in ServiceRequests : UpdateGet(p, id, kpi)
        \/ UpdateWrite(p)
        \/ Return(p)

SpecUpdate == InitLife /\ [][NextUpdate]_vars

\* Three records, the first holding the reference of an upload that has
\* returned.
InitTransfer ==
    /\ kpis = [id \in TransferIds |->
                IF id = 1
                THEN [NewDoc EXCEPT !.attachments = <<Attachment(1, "a.pdf")>>,
                                    !.updatedBy = Actor(1)]
                ELSE NewDoc]
    /\ blobs = {1}
    /\ nextFile = 2
    /\ pc = [p \in Procs |-> "idle"]
    /\ op = [p \in Procs |-> NoOp]
    /\ loc = [p \in Procs |-> NoLoc]
    /\ res = [p \in Procs |-> NoRes]
    /\ trace = [p \in Procs |-> <<>>]
    /\ stale = [p \in Procs |-> {}]
    /\ nops = 0
    /\ compFailed = FALSE

\* Transfers among the three records.
NextTransfer ==
    \E p \in Procs :
        \/ \E from \in TransferIds, to \in TransferIds, fileID \in 1..MaxFiles :
                TransferStart(p, from, to, fileID)
        \/ TransferGetFrom(p)
        \/ TransferGetTo(p)
        \/ TransferRemove(p)
        \/ TransferAdd(p)
        \/ TransferCommit(p)
        \/ Return(p)

SpecTransfer == InitTransfer /\ [][NextTransfer]_vars

\* Uploads whose caller may cancel, with the soft delete of their record.
NextUpload ==
    \E p \in Procs :
        \/ \E id \in KpiIds : SoftDeleteKPI(p, id)
        \/ \E id \in KpiIds, filename \in Filenames : UploadGet(p, id, filename)
        \/ UploadPut(p)
        \/ UploadAdd(p)
        \/ UploadCleanup(p)
        \/ Cancel(p)
        \/ Return(p)

SpecUpload == Init /\ [][NextUpload]_vars
====
